---- MODULE Spec2Model ----
\* The reconcile engine of the jobs-manager operator: the ManagedJob object kept
\* by the API server, the child batch Jobs created for it, and the Reconcile
\* handler (finalizer, planning, projection, scheduling, aggregation, persist).
EXTENDS Integers, Sequences, FiniteSets, TLC

VARIABLES
    managedJob,   \* the ManagedJob stored by the API server, or NoObject
    childJobs,    \* the batch Jobs stored by the API server: child name -> counts
    created,      \* history: child name -> number of successful Create calls
    last,         \* what the last Reconcile call did (its in-memory outcome)
    faults        \* the number of API calls that have failed so far

vars == <<managedJob, childJobs, created, last, faults>>

\* ---------------------------------------------------------------- constants

ExecutionStatusPending == "pending"
ExecutionStatusRunning == "running"
ExecutionStatusSucceeded == "succeeded"
ExecutionStatusFailed == "failed"
ExecutionStatusAborted == "aborted"

Statuses ==
    { ExecutionStatusPending, ExecutionStatusRunning, ExecutionStatusSucceeded,
      ExecutionStatusFailed, ExecutionStatusAborted }

TerminalStatuses ==
    { ExecutionStatusSucceeded, ExecutionStatusFailed, ExecutionStatusAborted }

\* The value that stands for an object the API server does not hold.
NoObject == [Absent |-> TRUE]

\* ------------------------------------------------------------------- bounds

\* Largest number of groups of a workflow, and of jobs of the whole workflow.
MaxGroups == 2
MaxJobs == 2

\* Largest number of API calls (List, Create, Update, Delete) that fail in a run.
MaxFaults == 1

\* The sizes of the workflows planning is applied to.
MaxPlanGroups == 3

MaxPlanJobs == 3

\* How far below 0 and above the largest accepted value the retries values go.
MaxRetriesBeyond == 4

\* -------------------------------------------------------------------- names

\* A name is a sequence of one-character strings, so that joining with "-" and
\* lower-casing are computed and two different triples can give the same text.
Lower(c) ==
    CASE c = "A" -> "a"
      [] c = "B" -> "b"
      [] c = "C" -> "c"
      [] OTHER -> c

ToLower(s) == [i \in 1..Len(s) |-> Lower(s[i])]

RECURSIVE Join(_, _)
Join(parts, sep) ==
    IF parts = <<>> THEN <<>>
    ELSE IF Len(parts) = 1 THEN parts[1]
    ELSE parts[1] \o sep \o Join(Tail(parts), sep)

jobNameGenerator(name) == ToLower(Join(name, <<"-">>))

\* The child name of job ji of group gi of the workflow mj.
ChildName(mj, gi, ji) ==
    jobNameGenerator(<<mj.Name, mj.Groups[gi].Name, mj.Groups[gi].Jobs[ji].Name>>)

\* All (group, job) positions of a list of groups, in declaration order.
RECURSIVE PairsFrom(_, _, _)
PairsFrom(groups, gi, ji) ==
    IF gi > Len(groups) THEN <<>>
    ELSE IF ji > Len(groups[gi].Jobs) THEN PairsFrom(groups, gi + 1, 1)
    ELSE <<<<gi, ji>>>> \o PairsFrom(groups, gi, ji + 1)

Pairs(groups) == PairsFrom(groups, 1, 1)

PairSet(groups) == { Pairs(groups)[i] : i \in 1..Len(Pairs(groups)) }

\* ------------------------------------------------------------ dependencies

Dependency(name, status) == [Name |-> name, Status |-> status]

\* A test that finds no entry.
checkIfPresentNever(currentDependencies, dependencyName) == FALSE

checkIfPresentInDependencies(currentDependencies, dependencyName) ==
    \E i \in 1..Len(currentDependencies) :
        currentDependencies[i].Name = dependencyName

\* Entries that are never rewritten.
SetDepsKeep(deps, name, status) == deps

SetDeps(deps, name, status) ==
    [i \in 1..Len(deps) |->
        IF deps[i].Name = name /\ deps[i].Status # status
        THEN [deps[i] EXCEPT !.Status = status]
        ELSE deps[i]]

\* jobDepMap holds, under a name, pointers to every job-level entry of that name
\* in any group; updating through it rewrites those entries in place.
updateDependentJobs(groups, completedJob, jobStatus) ==
    [gi \in 1..Len(groups) |->
        [groups[gi] EXCEPT !.Jobs =
            [ji \in 1..Len(groups[gi].Jobs) |->
                [groups[gi].Jobs[ji] EXCEPT !.Dependencies =
                    SetDeps(groups[gi].Jobs[ji].Dependencies, completedJob, jobStatus)]]]]

\* groupDepMap likewise for the group-level entries.
updateDependentGroups(groups, completedGroup, jobStatus) ==
    [gi \in 1..Len(groups) |->
        [groups[gi] EXCEPT !.Dependencies =
            SetDeps(groups[gi].Dependencies, completedGroup, jobStatus)]]

\* --------------------------------------------------------------- parameters

\* A parameter set, by one field of each kind compileParameters treats alike:
\* Env for the lists that are concatenated, ServiceAccount for the scalars that
\* are overridden when set, Labels for the maps that are replaced when set (a
\* set of <<key, value>> pairs, empty when the map is nil).
ManagedJobParameters(env, serviceAccount, labels) ==
    [Env |-> env, ServiceAccount |-> serviceAccount, Labels |-> labels]

NoParams == ManagedJobParameters(<<>>, "", {})

IsZero(params) == params = NoParams

\* One pass of the loop over the layers.
compileLayer(cparams, params) ==
    IF IsZero(params) THEN cparams
    ELSE [Env |-> IF params.Env # <<>> THEN cparams.Env \o params.Env ELSE cparams.Env,
          ServiceAccount |->
              IF params.ServiceAccount # "" THEN params.ServiceAccount
              ELSE cparams.ServiceAccount,
          Labels |-> IF params.Labels # {} THEN params.Labels ELSE cparams.Labels]

RECURSIVE compileParametersFrom(_, _)
compileParametersFrom(params, cparams) ==
    IF params = <<>> THEN cparams
    ELSE compileParametersFrom(Tail(params), compileLayer(cparams, params[1]))

\* compileParameters(layers...): the layers folded in the order they are passed.
\* A compilation that starts from its first layer instead of the empty set.
compileParametersKeep(params) ==
    IF params = <<>> THEN NoParams ELSE compileParametersFrom(params, params[1])

compileParameters(params) == compileParametersFrom(params, NoParams)

\* ----------------------------------------------------------------- planning

\* Entries named by the siblings' own names.
PlanJobDepsPlainName(wfName, groupName, jobs, ji, k, deps) ==
    deps \o [i \in 1..(ji - 1) |-> Dependency(jobs[i].Name, ExecutionStatusPending)]

\* The implicit dependencies of a non-parallel job: every sibling added to the
\* group's tree before it, up to the first item that carries the job's own name.
RECURSIVE PlanJobDeps(_, _, _, _, _, _)
PlanJobDeps(wfName, groupName, jobs, ji, k, deps) ==
    IF k > ji \/ jobs[k].Name = jobs[ji].Name THEN deps
    ELSE LET generatedJobName ==
                 jobNameGenerator(<<wfName, groupName, jobs[k].Name>>)
             next ==
                 IF checkIfPresentInDependencies(deps, generatedJobName) THEN deps
                 ELSE Append(deps, Dependency(generatedJobName, ExecutionStatusPending))
         IN PlanJobDeps(wfName, groupName, jobs, ji, k + 1, next)

\* An entry for the group just before only.
PlanGroupDepsPrevious(groups, gi, k, deps) ==
    IF gi = 1 THEN deps
    ELSE Append(deps, Dependency(groups[gi - 1].Name, ExecutionStatusPending))

\* The implicit dependencies of a non-parallel group, on the groups before it.
RECURSIVE PlanGroupDeps(_, _, _, _)
PlanGroupDeps(groups, gi, k, deps) ==
    IF k > gi \/ groups[k].Name = groups[gi].Name THEN deps
    ELSE LET next ==
                 IF checkIfPresentInDependencies(deps, groups[k].Name) THEN deps
                 ELSE Append(deps, Dependency(groups[k].Name, ExecutionStatusPending))
         IN PlanGroupDeps(groups, gi, k + 1, next)

PlanGroup(wfName, wfParams, groups, gi) ==
    LET group == groups[gi]
        jobs ==
            [ji \in 1..Len(group.Jobs) |->
                [group.Jobs[ji] EXCEPT
                    !.CompiledParams =
                        compileParameters(<<wfParams, group.Params, group.Jobs[ji].Params>>),
                    !.Dependencies =
                        IF group.Jobs[ji].Parallel THEN @
                        ELSE PlanJobDeps(wfName, group.Name, group.Jobs, ji, 1, @)]]
    IN [group EXCEPT
            !.Jobs = jobs,
            !.Dependencies =
                IF group.Parallel THEN @ ELSE PlanGroupDeps(groups, gi, 1, @)]

\* The groups after planning. A group's entries depend only on the names of the
\* groups and jobs, which planning does not change.
generateDependencyTree(mj) ==
    [mj EXCEPT !.Groups =
        [gi \in 1..Len(mj.Groups) |-> PlanGroup(mj.Name, mj.Params, mj.Groups, gi)]]

\* --------------------------------------------------------------- projection

\* A child batch Job as listed: its workflow-name label and its pod counts.
Child(wf, a, s, f) == [Workflow |-> wf, Active |-> a, Succeeded |-> s, Failed |-> f]

\* A projection that takes a child with an active pod for a succeeded one.
ProjectStatusEager(status, child) ==
    IF (child.Succeeded > 0 \/ child.Active > 0) /\ status # ExecutionStatusSucceeded
    THEN ExecutionStatusSucceeded
    ELSE status

\* A projection that reads no count.
ProjectStatusKeep(status, child) == status

\* The status a job gets from its child's counts.
ProjectStatus(status, child) ==
    IF child.Succeeded > 0 /\ status # ExecutionStatusSucceeded
    THEN ExecutionStatusSucceeded
    ELSE IF child.Failed > 0 /\ status # ExecutionStatusFailed
    THEN ExecutionStatusFailed
    ELSE IF child.Active > 0 /\ status # ExecutionStatusRunning
    THEN ExecutionStatusRunning
    ELSE status

\* A projection that takes every listed child for the child of every job.
RECURSIVE ProjectChildAny(_, _, _, _, _)
ProjectChildAny(wfName, groups, childName, child, ps) ==
    IF ps = <<>> THEN groups
    ELSE LET gi == ps[1][1]
             ji == ps[1][2]
             job == groups[gi].Jobs[ji]
             generatedJobName ==
                 jobNameGenerator(<<wfName, groups[gi].Name, job.Name>>)
             status == ProjectStatus(job.Status, child)
         IN ProjectChildAny(
                wfName,
                updateDependentJobs(
                    [groups EXCEPT ![gi].Jobs[ji].Status = status],
                    generatedJobName, status),
                childName, child, Tail(ps))

\* One listed child against every job of the workflow, in declaration order.
RECURSIVE ProjectChild(_, _, _, _, _)
ProjectChild(wfName, groups, childName, child, ps) ==
    IF ps = <<>> THEN groups
    ELSE LET gi == ps[1][1]
             ji == ps[1][2]
             job == groups[gi].Jobs[ji]
             generatedJobName ==
                 jobNameGenerator(<<wfName, groups[gi].Name, job.Name>>)
             status == ProjectStatus(job.Status, child)
             next ==
                 IF childName = generatedJobName
                 THEN updateDependentJobs(
                          [groups EXCEPT ![gi].Jobs[ji].Status = status],
                          generatedJobName, status)
                 ELSE groups
         IN ProjectChild(wfName, next, childName, child, Tail(ps))

RECURSIVE ProjectChildren(_, _, _, _)
ProjectChildren(wfName, groups, jobs, names) ==
    IF names = {} THEN groups
    ELSE LET n == CHOOSE x \in names : TRUE
         IN ProjectChildren(
                wfName,
                ProjectChild(wfName, groups, n, jobs[n], Pairs(groups)),
                jobs, names \ {n})

\* The children the label selector of the workflow lists.
Listed(wfName, jobs) == { n \in DOMAIN jobs : jobs[n].Workflow = wfName }

\* A projection that goes through the children although the List call failed.
checkRunningJobsStatusAnyway(mj, jobs, listError) ==
    [mj EXCEPT !.Groups =
        ProjectChildren(mj.Name, mj.Groups, jobs, Listed(mj.Name, jobs))]

\* listError: the List call failed, and the statuses are left as they were.
checkRunningJobsStatus(mj, jobs, listError) ==
    IF listError THEN mj
    ELSE [mj EXCEPT !.Groups =
            ProjectChildren(mj.Name, mj.Groups, jobs, Listed(mj.Name, jobs))]

\* ---------------------------------------------------------------- scheduler

\* Whether every job an entry of job (gi, ji) names is succeeded: the jobs whose
\* child name is the entry's name, and the siblings whose own name it is.
DepsSucceeded(wfName, groups, gi, ji) ==
    \A k \in 1..Len(groups[gi].Jobs[ji].Dependencies) :
        \A p \in PairSet(groups) :
            LET e == groups[gi].Jobs[ji].Dependencies[k]
                other == groups[p[1]].Jobs[p[2]]
            IN (\/ jobNameGenerator(<<wfName, groups[p[1]].Name, other.Name>>) = e.Name
                \/ (p[1] = gi /\ other.Name = e.Name))
               => other.Status = ExecutionStatusSucceeded

\* Whether every group an entry of group gi names is succeeded.
GroupDepsSucceeded(groups, gi) ==
    \A k \in 1..Len(groups[gi].Dependencies) :
        \A h \in 1..Len(groups) :
            groups[h].Name = groups[gi].Dependencies[k].Name
            => groups[h].Status = ExecutionStatusSucceeded

\* A Create that replaces a child whose name is taken.
executeJobRecreate(st, wfName, gi, ji, failNth) ==
    LET generatedJobName ==
            jobNameGenerator(<<wfName, st.groups[gi].Name, st.groups[gi].Jobs[ji].Name>>)
        calls == st.calls + 1
    IN IF calls = failNth
       THEN [st EXCEPT !.calls = calls, !.err = "error"]
       ELSE [st EXCEPT
                !.calls = calls,
                !.err = "nil",
                !.jobs = (generatedJobName :> Child(wfName, 0, 0, 0)) @@ st.jobs,
                !.created =
                    IF generatedJobName \in DOMAIN st.created
                    THEN [st.created EXCEPT ![generatedJobName] = @ + 1]
                    ELSE (generatedJobName :> 1) @@ st.created]

\* A Create that counts a child as created although its name is taken.
executeJobCountsRefused(st, wfName, gi, ji, failNth) ==
    LET generatedJobName ==
            jobNameGenerator(<<wfName, st.groups[gi].Name, st.groups[gi].Jobs[ji].Name>>)
        calls == st.calls + 1
        counted ==
            IF generatedJobName \in DOMAIN st.created
            THEN [st.created EXCEPT ![generatedJobName] = @ + 1]
            ELSE (generatedJobName :> 1) @@ st.created
    IN IF calls = failNth
       THEN [st EXCEPT !.calls = calls, !.err = "error"]
       ELSE IF generatedJobName \in DOMAIN st.jobs
       THEN [st EXCEPT !.calls = calls, !.err = "exists", !.created = counted]
       ELSE [st EXCEPT
                !.calls = calls,
                !.err = "nil",
                !.jobs = (generatedJobName :> Child(wfName, 0, 0, 0)) @@ st.jobs,
                !.created = counted]

\* executeJob: the Create call for the child of job (gi, ji). The call number
\* failNth fails with an error that is not "already exists"; a name that is
\* taken is refused with "already exists"; otherwise the child is stored.
executeJob(st, wfName, gi, ji, failNth) ==
    LET generatedJobName ==
            jobNameGenerator(<<wfName, st.groups[gi].Name, st.groups[gi].Jobs[ji].Name>>)
        calls == st.calls + 1
    IN IF calls = failNth
       THEN [st EXCEPT !.calls = calls, !.err = "error"]
       ELSE IF generatedJobName \in DOMAIN st.jobs
       THEN [st EXCEPT !.calls = calls, !.err = "exists"]
       ELSE [st EXCEPT
                !.calls = calls,
                !.err = "nil",
                !.jobs = (generatedJobName :> Child(wfName, 0, 0, 0)) @@ st.jobs,
                !.created =
                    IF generatedJobName \in DOMAIN st.created
                    THEN [st.created EXCEPT ![generatedJobName] = @ + 1]
                    ELSE (generatedJobName :> 1) @@ st.created]

\* An entry that counts as completed whatever its status.
JobDepCompletedAlways(jobDep) == TRUE

\* An entry of a job counts as completed when its observed status is succeeded.
JobDepCompletedOrRunning(jobDep) ==
    jobDep.Status \in {ExecutionStatusSucceeded, ExecutionStatusRunning}

JobDepCompleted(jobDep) == jobDep.Status = ExecutionStatusSucceeded

\* The loop over a pending job's entries: counts the succeeded ones, and on a
\* failed one aborts the job. The entries are read as they are at that moment.
RECURSIVE JobDepLoop(_, _, _, _, _)
JobDepLoop(groups, gi, ji, k, jobsCompleted) ==
    IF k > Len(groups[gi].Jobs[ji].Dependencies)
    THEN [groups |-> groups, jobsCompleted |-> jobsCompleted]
    ELSE LET jobDep == groups[gi].Jobs[ji].Dependencies[k]
             n == IF JobDepCompleted(jobDep)
                  THEN jobsCompleted + 1 ELSE jobsCompleted
             g == IF jobDep.Status = ExecutionStatusFailed
                  THEN updateDependentJobs(
                           [groups EXCEPT ![gi].Jobs[ji].Status = ExecutionStatusAborted],
                           groups[gi].Jobs[ji].Name, ExecutionStatusFailed)
                  ELSE groups
         IN JobDepLoop(g, gi, ji, k + 1, n)

\* One iteration of the job loop of a group that runs.
RunJob(st, wfName, gi, ji, failNth) ==
    LET job == st.groups[gi].Jobs[ji]
        loop ==
            IF job.Status = ExecutionStatusPending /\ Len(job.Dependencies) > 0
            THEN JobDepLoop(st.groups, gi, ji, 1, 0)
            ELSE [groups |-> st.groups, jobsCompleted |-> 0]
        runJob ==
            /\ job.Status = ExecutionStatusPending
            /\ \/ Len(job.Dependencies) = 0
               \/ loop.jobsCompleted = Len(job.Dependencies)
        s1 == [st EXCEPT !.groups = loop.groups]
        now == s1.groups[gi].Jobs[ji]
        s2 == executeJob(s1, wfName, gi, ji, failNth)
    IN IF ~runJob THEN s1
       ELSE IF now.Status \in
                 {ExecutionStatusRunning, ExecutionStatusFailed, ExecutionStatusAborted}
       THEN s1
       ELSE IF s2.err = "error"
       THEN [s2 EXCEPT
                !.returned = TRUE,
                !.refused = @ \cup {<<gi, ji>>},
                !.groups =
                    updateDependentGroups(
                        updateDependentJobs(
                            [s2.groups EXCEPT
                                ![gi].Jobs[ji].Status = ExecutionStatusFailed,
                                ![gi].Status = ExecutionStatusFailed],
                            job.Name, ExecutionStatusFailed),
                        s2.groups[gi].Name, ExecutionStatusFailed)]
       ELSE IF s2.err = "exists"
       THEN [s2 EXCEPT !.returned = TRUE, !.refused = @ \cup {<<gi, ji>>}]
       ELSE [s2 EXCEPT
                !.groups =
                    updateDependentJobs(
                        [s2.groups EXCEPT ![gi].Jobs[ji].Status = ExecutionStatusRunning],
                        job.Name, ExecutionStatusRunning),
                !.launched = @ \cup {<<gi, ji>>},
                !.unmet = @ \cup
                    (IF DepsSucceeded(wfName, s1.groups, gi, ji) THEN {} ELSE {<<gi, ji>>})]

RECURSIVE RunJobs(_, _, _, _, _)
RunJobs(st, wfName, gi, ji, failNth) ==
    IF st.returned \/ ji > Len(st.groups[gi].Jobs) THEN st
    ELSE RunJobs(RunJob(st, wfName, gi, ji, failNth), wfName, gi, ji + 1, failNth)

\* An entry of a group counts as completed when its observed status is succeeded.
GroupDepCompletedOrRunning(groupDep) ==
    groupDep.Status \in {ExecutionStatusSucceeded, ExecutionStatusRunning}

GroupDepCompleted(groupDep) == groupDep.Status = ExecutionStatusSucceeded

\* The loop over a group's entries: counts the succeeded ones, and on a failed
\* one aborts the group and tells its dependents it failed.
RECURSIVE GroupDepLoop(_, _, _, _)
GroupDepLoop(groups, gi, k, groupsCompleted) ==
    IF k > Len(groups[gi].Dependencies)
    THEN [groups |-> groups, groupsCompleted |-> groupsCompleted]
    ELSE LET groupDep == groups[gi].Dependencies[k]
             n == IF GroupDepCompleted(groupDep)
                  THEN groupsCompleted + 1 ELSE groupsCompleted
             g == IF groupDep.Status = ExecutionStatusFailed
                  THEN updateDependentGroups(
                           [groups EXCEPT ![gi].Status = ExecutionStatusAborted],
                           groups[gi].Name, ExecutionStatusFailed)
                  ELSE groups
         IN GroupDepLoop(g, gi, k + 1, n)

\* One iteration of the group loop.
RunGroup(st, wfName, gi, failNth) ==
    LET group == st.groups[gi]
        groupJobsCompleted ==
            Cardinality({ji \in 1..Len(group.Jobs) :
                            group.Jobs[ji].Status = ExecutionStatusSucceeded})
        told ==
            IF group.Status \in TerminalStatuses
            THEN updateDependentGroups(st.groups, group.Name, group.Status)
            ELSE st.groups
        loop ==
            IF Len(group.Dependencies) > 0
            THEN GroupDepLoop(told, gi, 1, 0)
            ELSE [groups |-> told, groupsCompleted |-> 0]
        runGroup ==
            \/ Len(group.Dependencies) = 0
            \/ loop.groupsCompleted = Len(group.Dependencies)
        started ==
            [st EXCEPT
                !.groups =
                    updateDependentGroups(
                        [loop.groups EXCEPT ![gi].Status = ExecutionStatusRunning],
                        group.Name, ExecutionStatusRunning),
                !.groupsRun = @ \cup {gi},
                !.groupsUnmet = @ \cup
                    (IF GroupDepsSucceeded(loop.groups, gi) THEN {} ELSE {gi})]
    IN IF groupJobsCompleted = Len(group.Jobs)
       THEN [st EXCEPT !.groups =
                updateDependentGroups(
                    [st.groups EXCEPT ![gi].Status = ExecutionStatusSucceeded],
                    group.Name, ExecutionStatusSucceeded)]
       ELSE IF group.Status \notin {ExecutionStatusPending, ExecutionStatusRunning}
       THEN [st EXCEPT !.groups = told]
       ELSE IF ~runGroup
       THEN [st EXCEPT !.groups = loop.groups]
       ELSE RunJobs(started, wfName, gi, 1, failNth)

RECURSIVE RunGroups(_, _, _, _)
RunGroups(st, wfName, gi, failNth) ==
    IF st.returned \/ gi > Len(st.groups) THEN st
    ELSE RunGroups(RunGroup(st, wfName, gi, failNth), wfName, gi + 1, failNth)

\* runPendingJobs on the in-memory workflow, against the stored children.
runPendingJobs(mj, jobs, cr, failNth) ==
    RunGroups(
        [groups |-> mj.Groups, jobs |-> jobs, created |-> cr, calls |-> 0,
         err |-> "nil", returned |-> FALSE, launched |-> {}, unmet |-> {},
         groupsRun |-> {}, groupsUnmet |-> {}, refused |-> {}],
        mj.Name, 1, failNth)

\* --------------------------------------------------------------- aggregator

\* The status checkOverallStatus leaves in memory: the failed it writes inside
\* the loop is overwritten by the assignment after the loop.
RECURSIVE OverallLoop(_, _, _)
OverallLoop(groups, gi, acc) ==
    IF gi > Len(groups) THEN acc
    ELSE OverallLoop(
             groups, gi + 1,
             IF groups[gi].Status = ExecutionStatusSucceeded
             THEN [acc EXCEPT !.groupsCompleted = @ + 1]
             ELSE IF groups[gi].Status \in {ExecutionStatusFailed, ExecutionStatusAborted}
             THEN [acc EXCEPT !.Status = ExecutionStatusFailed]
             ELSE acc)

checkOverallStatus(mj) ==
    LET acc == OverallLoop(mj.Groups, 1, [Status |-> mj.Status, groupsCompleted |-> 0])
    IN [mj EXCEPT !.Status =
            IF acc.groupsCompleted = Len(mj.Groups)
            THEN ExecutionStatusSucceeded
            ELSE ExecutionStatusRunning]

\* ---------------------------------------------------------------- workflows

WorkflowName == <<"w">>

GroupNames == { <<"a">>, <<"a", "-", "b">> }

JobNames == { <<"c">>, <<"b", "-", "c">> }

\* A job and a group as submitted: the statuses at their default, no entries.
NewJob(name, parallel) ==
    [Name |-> name, Parallel |-> parallel, Status |-> ExecutionStatusPending,
     Dependencies |-> <<>>, Params |-> NoParams, CompiledParams |-> NoParams]

NewGroup(name, parallel, jobs) ==
    [Name |-> name, Parallel |-> parallel, Status |-> ExecutionStatusPending,
     Dependencies |-> <<>>, Params |-> NoParams, Jobs |-> jobs]

NewManagedJob(groups) ==
    [Name |-> WorkflowName, Finalizer |-> FALSE, Deleting |-> FALSE,
     Status |-> ExecutionStatusPending, Params |-> NoParams, Groups |-> groups]

Distinct(seq) ==
    \A i, k \in 1..Len(seq) : i # k => seq[i].Name # seq[k].Name

\* Planning gives the first job of a group and the first group no entry, whatever
\* their parallel flag says (they have no predecessor), so the workflows are
\* enumerated with that flag set.
FirstParallel(seq) == seq[1].Parallel

JobLists ==
    UNION { { js \in [1..n -> { NewJob(nm, par) : nm \in JobNames, par \in BOOLEAN }] :
                Distinct(js) /\ FirstParallel(js) } : n \in 1..MaxJobs }

GroupLists ==
    UNION { { gs \in [1..n -> { NewGroup(nm, par, js) :
                                    nm \in GroupNames, par \in BOOLEAN, js \in JobLists }] :
                /\ Distinct(gs)
                /\ FirstParallel(gs)
                /\ Len(Pairs(gs)) <= MaxJobs } : n \in 1..MaxGroups }

\* The workflows a user can submit: names unique as the data model wants them.
Workflows == { NewManagedJob(gs) : gs \in GroupLists }

\* The workflows planning is applied to: up to MaxPlanGroups groups, the first
\* with up to MaxPlanJobs jobs, every parallel flag free, entries the user wrote
\* on the last job of the first group and on the last group, and parameters on
\* the three layers. The names are unique and fixed by position.
PlanGroupNames == << <<"a">>, <<"a", "-", "b">>, <<"b">> >>

PlanJobNames == << <<"c">>, <<"b", "-", "c">>, <<"d">> >>

ExplicitJobEntries ==
    { <<>>,
      <<Dependency(jobNameGenerator(<<WorkflowName, PlanGroupNames[1], PlanJobNames[1]>>),
                   ExecutionStatusSucceeded)>>,
      <<Dependency(<<"x">>, ExecutionStatusRunning)>> }

ExplicitGroupEntries ==
    { <<>>,
      <<Dependency(PlanGroupNames[1], ExecutionStatusSucceeded)>>,
      <<Dependency(<<"x">>, ExecutionStatusRunning)>> }

WithEntries(seq, entries) == [seq EXCEPT ![Len(seq)].Dependencies = entries]

PlanJobLists ==
    UNION { { WithEntries([i \in 1..n |-> NewJob(PlanJobNames[i], par[i])], entries) :
                par \in [1..n -> BOOLEAN], entries \in ExplicitJobEntries } :
            n \in 1..MaxPlanJobs }

PlanGroupLists ==
    UNION { { WithEntries(
                [i \in 1..n |->
                    NewGroup(PlanGroupNames[i], par[i],
                             IF i = 1 THEN js ELSE <<NewJob(PlanJobNames[1], TRUE)>>)],
                entries) :
                par \in [1..n -> BOOLEAN], js \in PlanJobLists,
                entries \in ExplicitGroupEntries } :
            n \in 1..MaxPlanGroups }

\* The parameters of the example: FOO on the workflow, FEE on every group, POO
\* on every job.
WithExampleParams(mj) ==
    [mj EXCEPT
        !.Params = ManagedJobParameters(<<"FOO">>, "", {}),
        !.Groups =
            [gi \in 1..Len(mj.Groups) |->
                [mj.Groups[gi] EXCEPT
                    !.Params = ManagedJobParameters(<<"FEE">>, "", {}),
                    !.Jobs =
                        [ji \in 1..Len(mj.Groups[gi].Jobs) |->
                            [mj.Groups[gi].Jobs[ji] EXCEPT
                                !.Params = ManagedJobParameters(<<"POO">>, "", {})]]]]]

\* The parameter sets of each layer, and the one-job workflows carrying them.
ParamSets(env, serviceAccount, labels) ==
    { ManagedJobParameters(e, sa, l) :
        e \in {<<>>, <<env>>, <<env, "QUE">>}, sa \in {"", serviceAccount},
        l \in {{}, {<<"tier", labels>>}} }

ParamWorkflows ==
    { [NewManagedJob(<<[NewGroup(PlanGroupNames[1], TRUE,
                                 <<[NewJob(PlanJobNames[1], TRUE) EXCEPT !.Params = c]>>)
                         EXCEPT !.Params = b]>>)
          EXCEPT !.Params = a] :
        a \in ParamSets("FOO", "sa1", "one"),
        b \in ParamSets("FEE", "sa2", "two"),
        c \in ParamSets("POO", "sa3", "three") \cup ParamSets("FOO", "sa1", "one") }

PlanWorkflows ==
    { NewManagedJob(gs) : gs \in PlanGroupLists }
    \cup { WithExampleParams(NewManagedJob(gs)) : gs \in PlanGroupLists }
    \cup ParamWorkflows

\* What the data model asks of a workflow: at least one group, at least one
\* job in every group, unique names, every name over [a-z0-9-].
NameChars == {"a", "b", "c", "d", "w", "x", "-"}

ValidName(name) == Len(name) > 0 /\ \A i \in 1..Len(name) : name[i] \in NameChars

ValidWorkflow(mj) ==
    /\ Len(mj.Groups) > 0
    /\ Distinct(mj.Groups)
    /\ \A gi \in 1..Len(mj.Groups) :
          /\ ValidName(mj.Groups[gi].Name)
          /\ Len(mj.Groups[gi].Jobs) > 0
          /\ Distinct(mj.Groups[gi].Jobs)
          /\ \A ji \in 1..Len(mj.Groups[gi].Jobs) :
                ValidName(mj.Groups[gi].Jobs[ji].Name)

\* Workflows that break one of these rules each: a group name twice, a job name
\* twice in a group, no group, a group without jobs, an upper-case letter.
InvalidWorkflows ==
    { NewManagedJob(<<NewGroup(<<"a">>, TRUE, <<NewJob(<<"c">>, TRUE)>>),
                      NewGroup(<<"a">>, TRUE,
                               <<NewJob(<<"c">>, TRUE), NewJob(<<"d">>, par)>>)>>) :
        par \in BOOLEAN }
    \cup { NewManagedJob(<<NewGroup(<<"a">>, TRUE,
                                    <<NewJob(<<"c">>, TRUE), NewJob(<<"c">>, par)>>)>>) :
             par \in BOOLEAN }
    \cup { NewManagedJob(<<>>),
           NewManagedJob(<<NewGroup(<<"a">>, TRUE, <<>>)>>),
           NewManagedJob(<<NewGroup(<<"A", "b">>, TRUE, <<NewJob(<<"c">>, TRUE)>>)>>) }

\* ------------------------------------------------------------------ actions

NoTick ==
    [kind |-> "none", err |-> FALSE, requeue |-> 0, launched |-> {}, unmet |-> {},
     groupsRun |-> {}, groupsUnmet |-> {}, createErr |-> "nil", refused |-> {},
     listError |-> FALSE, persistError |-> FALSE, deleteFails |-> {},
     mem |-> NoObject]

Init ==
    /\ managedJob \in Workflows
    /\ childJobs = <<>>
    /\ created = <<>>
    /\ last = NoTick
    /\ faults = 0

\* The number of failures a reconcile injects, which the run can still take.
Count(b) == IF b THEN 1 ELSE 0

Inject(n) ==
    /\ faults + n <= MaxFaults
    /\ faults' = faults + n

\* Reconcile of a key whose object is gone: done, no error.
ReconcileNotFound ==
    /\ managedJob = NoObject
    /\ last' = [NoTick EXCEPT !.kind = "notfound"]
    /\ UNCHANGED <<managedJob, childJobs, created, faults>>

\* deleteChildJobs followed by the removal of the finalizer. A failed List is
\* returned; a failed Delete is logged and the loop goes on; once the finalizer
\* is gone the API server drops the object.
handleDeletion(listError, deleteFails, updateError) ==
    LET gone == Listed(managedJob.Name, childJobs) \ deleteFails
        kept == [n \in DOMAIN childJobs \ gone |-> childJobs[n]]
    IN IF ~managedJob.Finalizer
       THEN /\ last' = [NoTick EXCEPT !.kind = "deletion", !.mem = managedJob]
            /\ Inject(0)
            /\ UNCHANGED <<managedJob, childJobs, created>>
       ELSE IF listError
       THEN /\ last' = [NoTick EXCEPT !.kind = "deletion", !.err = TRUE,
                                      !.mem = managedJob]
            /\ Inject(1)
            /\ UNCHANGED <<managedJob, childJobs, created>>
       ELSE /\ childJobs' = kept
            /\ Inject(Cardinality(deleteFails) + Count(updateError))
            /\ managedJob' = IF updateError THEN managedJob ELSE NoObject
            /\ last' = [NoTick EXCEPT
                            !.kind = "deletion", !.err = updateError,
                            !.deleteFails = deleteFails,
                            !.mem = [managedJob EXCEPT !.Finalizer = FALSE]]
            /\ UNCHANGED created

ReconcileDeletion ==
    /\ managedJob # NoObject
    /\ managedJob.Deleting
    /\ \E listError \in BOOLEAN, updateError \in BOOLEAN :
         \E deleteFails \in SUBSET Listed(managedJob.Name, childJobs) :
            handleDeletion(listError, deleteFails, updateError)

\* A first reconcile that plans in the same pass as it adds the finalizer.
ReconcileAddFinalizerAndPlan ==
    /\ managedJob # NoObject
    /\ ~managedJob.Deleting
    /\ ~managedJob.Finalizer
    /\ \E updateError \in BOOLEAN :
         LET mem == generateDependencyTree([managedJob EXCEPT !.Finalizer = TRUE])
         IN /\ managedJob' = IF updateError THEN managedJob ELSE mem
            /\ last' = [NoTick EXCEPT
                            !.kind = "finalizer", !.err = updateError,
                            !.persistError = updateError,
                            !.requeue = IF updateError THEN 0 ELSE 1, !.mem = mem]
            /\ Inject(Count(updateError))
    /\ UNCHANGED <<childJobs, created>>

\* First reconcile of a live object: the finalizer is added and persisted.
ReconcileAddFinalizer ==
    /\ managedJob # NoObject
    /\ ~managedJob.Deleting
    /\ ~managedJob.Finalizer
    /\ \E updateError \in BOOLEAN :
         LET mem == [managedJob EXCEPT !.Finalizer = TRUE]
         IN /\ managedJob' = IF updateError THEN managedJob ELSE mem
            /\ last' = [NoTick EXCEPT
                            !.kind = "finalizer", !.err = updateError,
                            !.persistError = updateError,
                            !.requeue = IF updateError THEN 0 ELSE 1, !.mem = mem]
            /\ Inject(Count(updateError))
    /\ UNCHANGED <<childJobs, created>>

\* A planning reconcile that goes on to scheduling in the same pass.
ReconcilePlanAndRun ==
    /\ managedJob # NoObject
    /\ ~managedJob.Deleting
    /\ managedJob.Finalizer
    /\ generateDependencyTree(managedJob) # managedJob
    /\ LET mem == generateDependencyTree(managedJob)
           st == runPendingJobs(mem, childJobs, created, 0)
       IN /\ managedJob' = [mem EXCEPT !.Groups = st.groups]
          /\ childJobs' = st.jobs
          /\ created' = st.created
          /\ last' = [NoTick EXCEPT !.kind = "plan", !.mem = managedJob']
          /\ Inject(0)

\* Planning changed the object: it is persisted by the update inside
\* generateDependencyTree or by the one in Reconcile, and the reconcile ends.
ReconcilePlan ==
    /\ managedJob # NoObject
    /\ ~managedJob.Deleting
    /\ managedJob.Finalizer
    /\ generateDependencyTree(managedJob) # managedJob
    /\ \E updateError1 \in BOOLEAN, updateError2 \in BOOLEAN :
         LET mem == generateDependencyTree(managedJob)
         IN /\ managedJob' = IF updateError1 /\ updateError2 THEN managedJob ELSE mem
            /\ last' = [NoTick EXCEPT
                            !.kind = "plan",
                            !.persistError = updateError1 \/ updateError2,
                            !.mem = mem]
            /\ Inject(Count(updateError1) + Count(updateError2))
    /\ UNCHANGED <<childJobs, created>>

\* The delay, in seconds, of the re-queue of a workflow that is running.
RequeueDelay == 30

\* A result that always asks for the re-queue.
RequeueAfterAlways(mj) == RequeueDelay

\* The result of a reconcile that went through aggregation: re-queue after
\* RequeueDelay while the workflow is running, done (0) otherwise.
RequeueAfter(mj) ==
    IF mj.Status = ExecutionStatusRunning THEN RequeueDelay ELSE 0

\* Planning changed nothing: projection, scheduling, persist when the object
\* changed, aggregation and the update of the status subresource.
ReconcileRun ==
    /\ managedJob # NoObject
    /\ ~managedJob.Deleting
    /\ managedJob.Finalizer
    /\ generateDependencyTree(managedJob) = managedJob
    /\ \E listError \in BOOLEAN, failNth \in 0..Len(Pairs(managedJob.Groups)) :
         LET projected == checkRunningJobsStatus(managedJob, childJobs, listError)
             st == runPendingJobs(projected, childJobs, created, failNth)
             scheduled == [projected EXCEPT !.Groups = st.groups]
             mem == checkOverallStatus(scheduled)
         IN \E updateError \in BOOLEAN, statusError \in BOOLEAN :
               /\ failNth <= st.calls
               /\ updateError => scheduled # managedJob
               /\ Inject(Count(listError) + Count(failNth > 0)
                         + Count(updateError) + Count(statusError))
               /\ managedJob' =
                    [managedJob EXCEPT
                        !.Groups =
                            IF scheduled # managedJob /\ ~updateError
                            THEN scheduled.Groups ELSE @,
                        !.Status = IF statusError THEN @ ELSE mem.Status]
               /\ childJobs' = st.jobs
               /\ created' = st.created
               /\ last' = [kind |-> "run", err |-> FALSE,
                           requeue |-> RequeueAfter(mem),
                           launched |-> st.launched, unmet |-> st.unmet,
                           groupsRun |-> st.groupsRun, groupsUnmet |-> st.groupsUnmet,
                           createErr |-> st.err, refused |-> st.refused,
                           listError |-> listError, persistError |-> updateError,
                           deleteFails |-> {}, mem |-> mem]

Reconcile ==
    \/ ReconcileNotFound
    \/ ReconcileDeletion
    \/ ReconcileAddFinalizer
    \/ ReconcilePlan
    \/ ReconcileRun

\* The user deletes the workflow: with a finalizer the object is only marked.
UserDelete ==
    /\ managedJob # NoObject
    /\ ~managedJob.Deleting
    /\ managedJob' =
         IF managedJob.Finalizer THEN [managedJob EXCEPT !.Deleting = TRUE]
         ELSE NoObject
    /\ last' = NoTick
    /\ UNCHANGED <<childJobs, created, faults>>

\* The counts a batch Job goes through: its pod starts, then succeeds or fails;
\* after a failure the pod is retried, and the retry succeeds or fails.
ChildNext(c) ==
    IF c.Active = 0 /\ c.Succeeded = 0 /\ c.Failed = 0
    THEN { [c EXCEPT !.Active = 1] }
    ELSE IF c.Active = 1 /\ c.Failed = 0
    THEN { [c EXCEPT !.Active = 0, !.Succeeded = 1],
           [c EXCEPT !.Active = 0, !.Failed = 1],
           [c EXCEPT !.Failed = 1] }
    ELSE IF c.Active = 1
    THEN { [c EXCEPT !.Active = 0, !.Succeeded = 1],
           [c EXCEPT !.Active = 0] }
    ELSE {}

\* The counts are read only by the projection of a live workflow, so the steps
\* of the children are followed while the workflow is live.
ChildStep ==
    /\ managedJob # NoObject
    /\ ~managedJob.Deleting
    /\ \E n \in DOMAIN childJobs :
        \E c \in ChildNext(childJobs[n]) :
            /\ childJobs' = [childJobs EXCEPT ![n] = c]
            /\ last' = NoTick
            /\ UNCHANGED <<managedJob, created, faults>>

Next == Reconcile \/ UserDelete \/ ChildStep

Spec == Init /\ [][Next]_vars

\* What a reconcile in which no API call fails leaves of the workflow and of
\* the children.
FaultFreeRun ==
    LET projected == checkRunningJobsStatus(managedJob, childJobs, FALSE)
        st == runPendingJobs(projected, childJobs, created, 0)
        scheduled == [projected EXCEPT !.Groups = st.groups]
    IN <<[scheduled EXCEPT !.Status = checkOverallStatus(scheduled).Status],
         st.jobs>>

\* Nothing moves any more: every child has ended, the plan is stable and a
\* reconcile without failures leaves the workflow and the children as they
\* are, however often it is repeated.
Quiescent ==
    /\ managedJob # NoObject
    /\ ~managedJob.Deleting
    /\ managedJob.Finalizer
    /\ generateDependencyTree(managedJob) = managedJob
    /\ \A n \in DOMAIN childJobs : ChildNext(childJobs[n]) = {}
    /\ FaultFreeRun = <<managedJob, childJobs>>

\* A reconcile of the live workflow in which no call fails changes the stored
\* objects: the finalizer is missing, the plan is not stored yet, or projection
\* and scheduling have something to write.
ReconcileMoves ==
    /\ managedJob # NoObject
    /\ ~managedJob.Deleting
    /\ \/ ~managedJob.Finalizer
       \/ generateDependencyTree(managedJob) # managedJob
       \/ FaultFreeRun # <<managedJob, childJobs>>

\* Planning on its own: the reconcile of a workflow that carries the finalizer
\* and has not been planned yet, over the workflows planning is applied to.
PlanInit ==
    /\ managedJob \in { [mj EXCEPT !.Finalizer = TRUE] : mj \in PlanWorkflows }
    /\ childJobs = <<>>
    /\ created = <<>>
    /\ last = NoTick
    /\ faults = 0

PlanSpec == PlanInit /\ [][ReconcilePlan]_vars

\* The operator on workflows that break the rules of the data model.
InvalidInit ==
    /\ managedJob \in InvalidWorkflows
    /\ childJobs = <<>>
    /\ created = <<>>
    /\ last = NoTick
    /\ faults = 0

InvalidSpec == InvalidInit /\ [][Next]_vars

\* A reconcile in which no API call fails, and the fair specification of the
\* runs without failing calls: while
\* the workflow is not finished the handler is run again (re-queued after the
\* finalizer and while running, woken by the events of the object and of the
\* owned Jobs), and a child that can move does move.
ReconcileNoFailure == Reconcile /\ faults' = faults

\* The runs in which no API call fails.
NextNoFailure == Next /\ faults' = faults

\* Weak fairness of the reconcile, written through its enabling condition:
\* a reconcile that would keep changing the stored objects is eventually run.
ReconcileFairness == []<>~ReconcileMoves \/ []<><<ReconcileNoFailure>>_vars

FairSpec ==
    Init /\ [][NextNoFailure]_vars /\ WF_vars(ChildStep) /\ ReconcileFairness

\* The workflow of one group with three jobs in a row: the first parallel,
\* the second and the third not.
ChainWorkflow ==
    NewManagedJob(
        <<NewGroup(PlanGroupNames[1], TRUE,
                   <<NewJob(PlanJobNames[1], TRUE),
                     NewJob(PlanJobNames[2], FALSE),
                     NewJob(PlanJobNames[3], FALSE)>>)>>)

ChainInit ==
    /\ managedJob = ChainWorkflow
    /\ childJobs = <<>>
    /\ created = <<>>
    /\ last = NoTick
    /\ faults = 0

\* The operator on the three-job workflow.
ChainSpec == ChainInit /\ [][Next]_vars

\* The fair runs in which API calls may fail, up to MaxFaults of them: the
\* reconcile returns a re-queue while the workflow is running and is woken by
\* the events of the owned Jobs, so a reconcile without a failing call comes
\* again while it has something to write.
FaultySpec == Init /\ [][Next]_vars /\ WF_vars(ChildStep) /\ ReconcileFairness

\* Workflows of two groups with two jobs each: names that give four different
\* child names, or names of which two give the same child name, and every
\* parallel flag that planning reads.
GridNames ==
    { << <<"a">>, <<"c">>, <<"d">>, <<"b">>, <<"c">>, <<"d">> >>,
      << <<"a">>, <<"c">>, <<"b", "-", "c">>, <<"a", "-", "b">>, <<"c">>, <<"d">> >> }

GridWorkflows ==
    { NewManagedJob(
          <<NewGroup(n[1], TRUE, <<NewJob(n[2], TRUE), NewJob(n[3], f[1])>>),
            NewGroup(n[4], f[2], <<NewJob(n[5], TRUE), NewJob(n[6], f[3])>>)>>) :
        n \in GridNames, f \in [1..3 -> BOOLEAN] }

GridInit ==
    /\ managedJob \in GridWorkflows
    /\ childJobs = <<>>
    /\ created = <<>>
    /\ last = NoTick
    /\ faults = 0

\* The reconciles of these workflows up to their first launches: the children
\* stay as they are created.
GridSpec == GridInit /\ [][Reconcile \/ UserDelete]_vars

\* A workflow whose first group holds two parallel jobs that name each other
\* in an entry the user wrote, with the observed status the user gave it, and
\* whose second group, parallel or waiting for the first, holds one job outside
\* the cycle.
CycleWorkflows ==
    { NewManagedJob(
          <<NewGroup(PlanGroupNames[1], TRUE,
                <<[NewJob(PlanJobNames[1], TRUE) EXCEPT
                      !.Dependencies = <<Dependency(PlanJobNames[3], s[1])>>],
                  [NewJob(PlanJobNames[3], TRUE) EXCEPT
                      !.Dependencies = <<Dependency(PlanJobNames[1], s[2])>>]>>),
            NewGroup(PlanGroupNames[3], par, <<NewJob(PlanJobNames[1], TRUE)>>)>>) :
        s \in [1..2 -> {ExecutionStatusPending, ExecutionStatusSucceeded}],
        par \in BOOLEAN }

CycleInit ==
    /\ managedJob \in CycleWorkflows
    /\ childJobs = <<>>
    /\ created = <<>>
    /\ last = NoTick
    /\ faults = 0

\* The operator on the workflows with a cycle.
CycleSpec == CycleInit /\ [][Next]_vars

\* A group with two jobs, the second (parallel or not) carrying an entry the
\* user wrote that names the first by its job name.
SiblingGroup(name, groupParallel, parallel) ==
    NewGroup(name, groupParallel,
        <<NewJob(PlanJobNames[1], TRUE),
          [NewJob(PlanJobNames[3], parallel) EXCEPT
              !.Dependencies =
                  <<Dependency(PlanJobNames[1], ExecutionStatusPending)>>]>>)

\* The workflows of one such group, or of two with the same job names, the
\* second group waiting for the first.
SiblingWorkflows ==
    { NewManagedJob(<<SiblingGroup(PlanGroupNames[1], TRUE, par)>>) :
        par \in BOOLEAN }
    \cup { NewManagedJob(<<SiblingGroup(PlanGroupNames[1], TRUE, par),
                           SiblingGroup(PlanGroupNames[3], FALSE, par)>>) :
             par \in BOOLEAN }

SiblingInit ==
    /\ managedJob \in SiblingWorkflows
    /\ childJobs = <<>>
    /\ created = <<>>
    /\ last = NoTick
    /\ faults = 0

\* The operator on these workflows.
SiblingSpec == SiblingInit /\ [][Next]_vars

\* A child that carries the workflow's label and the name of none of its jobs,
\* with the counts it may report.
OrphanName == <<"w", "-", "a", "-", "x">>

OrphanChildren ==
    { Child(WorkflowName, 1, 0, 0), Child(WorkflowName, 0, 1, 0),
      Child(WorkflowName, 0, 0, 1) }

OrphanInit ==
    /\ managedJob = ChainWorkflow
    /\ childJobs \in { OrphanName :> c : c \in OrphanChildren }
    /\ created = <<>>
    /\ last = NoTick
    /\ faults = 0

\* The operator on the three-job workflow, with such a child listed.
OrphanSpec == OrphanInit /\ [][Next]_vars

\* Another workflow of the namespace, named "w-a", with one group "b" and one
\* job "c", and the child its own reconcile has created for that job.
OtherWorkflowName == <<"w", "-", "a">>

OtherChildName == jobNameGenerator(<<OtherWorkflowName, <<"b">>, <<"c">> >>)

\* The workflow "w" next to it: one group, named "a-b" or "b", with the jobs
\* "c" and "d".
NeighbourWorkflows ==
    { NewManagedJob(
          <<NewGroup(g, TRUE, <<NewJob(<<"c">>, TRUE), NewJob(<<"d">>, par)>>)>>) :
        g \in {<<"a", "-", "b">>, <<"b">>}, par \in BOOLEAN }

NeighbourInit ==
    /\ managedJob \in NeighbourWorkflows
    /\ childJobs = (OtherChildName :> Child(OtherWorkflowName, 0, 0, 0))
    /\ created = <<>>
    /\ last = NoTick
    /\ faults = 0

\* The operator on workflow "w" while the child of the other workflow exists.
NeighbourSpec == NeighbourInit /\ [][Next]_vars

\* The largest retries value that is taken as it is.
MaxBackoffLimit == 100

\* int32(retries): the value itself inside the range of int32. The conversion
\* is applied after the range test, to a value in 1..MaxBackoffLimit; the
\* values of the source's int outside int32 are all above MaxBackoffLimit.
Int32(n) == IF -2147483647 <= n /\ n <= 2147483647 THEN n ELSE 0

\* convertRetries without the range test.
convertRetriesUnchecked(retries) ==
    IF retries = 0 THEN <<>> ELSE <<Int32(retries)>>

\* convertRetries: the *int32 of the child's BackoffLimit, <<>> for nil and
\* <<n>> for a pointer to n.
convertRetries(retries) ==
    IF retries = 0
    THEN <<>>
    ELSE LET checked == IF retries < 0 \/ retries > MaxBackoffLimit THEN 1 ELSE retries
         IN <<Int32(checked)>>

\* The retries values a workflow is submitted with.
RetriesValues == (0 - MaxRetriesBeyond)..(MaxBackoffLimit + MaxRetriesBeyond)

RetriesInit ==
    /\ managedJob \in { [Retries |-> r] @@ ChainWorkflow : r \in RetriesValues }
    /\ childJobs = <<>>
    /\ created = <<>>
    /\ last = NoTick
    /\ faults = 0

\* executeJob building the batch Job of a pending job: the child is created
\* with the BackoffLimit convertRetries gives for the workflow's retries, and
\* the scheduler marks the job running.
executeJobBackoffLimit ==
    \E p \in PairSet(managedJob.Groups) :
        LET generatedJobName == ChildName(managedJob, p[1], p[2])
        IN /\ managedJob.Groups[p[1]].Jobs[p[2]].Status = ExecutionStatusPending
           /\ generatedJobName \notin DOMAIN childJobs
           /\ childJobs' =
                  (generatedJobName :>
                       ([BackoffLimit |-> convertRetries(managedJob.Retries)]
                            @@ Child(managedJob.Name, 0, 0, 0))) @@ childJobs
           /\ managedJob' =
                  [managedJob EXCEPT
                      !.Groups[p[1]].Jobs[p[2]].Status = ExecutionStatusRunning]
           /\ UNCHANGED <<created, last, faults>>

\* The creation of the children under every retries value.
RetriesSpec == RetriesInit /\ [][executeJobBackoffLimit]_vars

\* ------------------------------------------------------------------- claims

\* The jobs and groups of the in-memory workflow the last reconcile ended with.
MemJob(p) == last.mem.Groups[p[1]].Jobs[p[2]]

RanScheduler == last.kind = "run"

AfterRun == RanScheduler /\ managedJob # NoObject

\* C3: after a reconcile, a workflow whose status is succeeded has every group
\* succeeded and every job succeeded.
C3_SucceededMeansAllSucceeded ==
    (AfterRun /\ managedJob.Status = ExecutionStatusSucceeded) =>
        /\ \A gi \in DOMAIN managedJob.Groups :
              managedJob.Groups[gi].Status = ExecutionStatusSucceeded
        /\ \A p \in PairSet(managedJob.Groups) :
              managedJob.Groups[p[1]].Jobs[p[2]].Status = ExecutionStatusSucceeded

\* C4: a reconcile that runs the aggregator while a group is failed or aborted
\* ends with the workflow's status failed, not running.
C4_FailedGroupFailsWorkflow ==
    (RanScheduler /\ \E gi \in DOMAIN last.mem.Groups :
        last.mem.Groups[gi].Status \in {ExecutionStatusFailed, ExecutionStatusAborted})
    => last.mem.Status = ExecutionStatusFailed

JobOf(p) == managedJob.Groups[p[1]].Jobs[p[2]]

\* C5: a job that is failed or aborted makes its group failed or aborted under
\* fair re-reconciliation; so where re-reconciling changes nothing any more,
\* the group of every failed or aborted job is failed or aborted.
C5_FailedJobFailsGroup ==
    Quiescent =>
        \A p \in PairSet(managedJob.Groups) :
            JobOf(p).Status \in {ExecutionStatusFailed, ExecutionStatusAborted}
            => managedJob.Groups[p[1]].Status
                  \in {ExecutionStatusFailed, ExecutionStatusAborted}

\* Two groups, the second sequential and so planned to depend on the first,
\* the first with one job whose child, a child of its own, ended in failure.
FirstGroupJobFailed ==
    /\ managedJob # NoObject
    /\ Len(managedJob.Groups) = 2
    /\ ~managedJob.Groups[2].Parallel
    /\ Len(managedJob.Groups[1].Jobs) = 1
    /\ \A p \in PairSet(managedJob.Groups) :
          p # <<1, 1>> => ChildName(managedJob, p[1], p[2]) # ChildName(managedJob, 1, 1)
    /\ ChildName(managedJob, 1, 1) \in DOMAIN childJobs
    /\ childJobs[ChildName(managedJob, 1, 1)].Failed > 0
    /\ childJobs[ChildName(managedJob, 1, 1)].Succeeded = 0

\* C6: when the only job of the first of two sequential groups fails, the
\* second group becomes aborted and none of its jobs is launched; so where
\* re-reconciling changes nothing any more, the second group is aborted and
\* has no child.
C6_SecondGroupAborted ==
    (Quiescent /\ FirstGroupJobFailed) =>
        /\ managedJob.Groups[2].Status = ExecutionStatusAborted
        /\ \A ji \in DOMAIN managedJob.Groups[2].Jobs :
              ChildName(managedJob, 2, ji) \notin DOMAIN created

\* C7: once a job's status is succeeded, failed or aborted, no reconcile
\* changes it to a different status, whatever counts its child reports.
C7_TerminalJobStatusKept ==
    [][(managedJob # NoObject /\ managedJob' # NoObject) =>
          \A p \in PairSet(managedJob.Groups) :
              JobOf(p).Status \in TerminalStatuses
              => managedJob'.Groups[p[1]].Jobs[p[2]].Status = JobOf(p).Status]_vars

\* A job one of whose dependency entries names a job that is failed, and a
\* group one of whose dependency entries names a group that is failed.
JobDependencyFailed(p) ==
    \E d \in DOMAIN JobOf(p).Dependencies :
        \E q \in PairSet(managedJob.Groups) :
            /\ ChildName(managedJob, q[1], q[2]) = JobOf(p).Dependencies[d].Name
            /\ JobOf(q).Status = ExecutionStatusFailed

GroupDependencyFailed(gi) ==
    \E d \in DOMAIN managedJob.Groups[gi].Dependencies :
        \E gj \in DOMAIN managedJob.Groups :
            /\ managedJob.Groups[gj].Name = managedJob.Groups[gi].Dependencies[d].Name
            /\ managedJob.Groups[gj].Status = ExecutionStatusFailed

\* C8: a job or group that is not terminal and has a failed dependency
\* eventually becomes aborted; so where re-reconciling changes nothing any
\* more, no job or group with a failed dependency is left pending or running.
C8_FailedDependencyAborts ==
    Quiescent =>
        /\ \A p \in PairSet(managedJob.Groups) :
              JobDependencyFailed(p) => JobOf(p).Status \in TerminalStatuses
        /\ \A gi \in DOMAIN managedJob.Groups :
              GroupDependencyFailed(gi)
              => managedJob.Groups[gi].Status \in TerminalStatuses

\* The name the specification gives the child of job j of group g of workflow w.
SpecChildName(w, g, j) == ToLower(w \o <<"-">> \o g \o <<"-">> \o j)

\* C9: every child created for the workflow is named lower(workflow-group-job)
\* for a (group, job) pair of the workflow, and no name is created more than
\* once, also when the persist of the statuses failed and the job is tried again.
C9_ChildrenNamedAndCreatedOnce ==
    /\ \A n \in DOMAIN created : created[n] <= 1
    /\ DOMAIN childJobs \subseteq DOMAIN created
    /\ managedJob # NoObject =>
          \A n \in DOMAIN created :
              \E p \in PairSet(managedJob.Groups) :
                  n = SpecChildName(managedJob.Name, managedJob.Groups[p[1]].Name,
                                    JobOf(p).Name)

\* A reconcile tried again to create the child of a job that is still pending
\* in the stored object, was refused, and the child exists once.
C9_Witness ==
    /\ AfterRun
    /\ last.createErr = "exists"
    /\ \E p \in PairSet(managedJob.Groups) :
          /\ JobOf(p).Status = ExecutionStatusPending
          /\ ChildName(managedJob, p[1], p[2]) \in DOMAIN created
          /\ created[ChildName(managedJob, p[1], p[2])] = 1
          /\ \A q \in PairSet(managedJob.Groups) :
                q # p => ChildName(managedJob, q[1], q[2])
                            # ChildName(managedJob, p[1], p[2])

\* The (group, job) pairs of the workflow whose synthesised child name is n.
PairsNamed(n) ==
    { p \in PairSet(managedJob.Groups) : ChildName(managedJob, p[1], p[2]) = n }

\* C10: in a workflow with unique group and job names over [a-z0-9-], distinct
\* (group, job) pairs have distinct child names, so every created child is the
\* child of exactly one job.
C10_ChildOfExactlyOneJob ==
    managedJob # NoObject =>
        \A n \in DOMAIN childJobs : Cardinality(PairsNamed(n)) = 1

\* The stored workflow still carries the finalizer.
FinalizerKept == managedJob # NoObject /\ managedJob.Finalizer

\* C11: a reconcile of a workflow marked for deletion in which a delete call
\* for one of its children failed does not remove the finalizer.
C11_FinalizerKeptWhenDeleteFails ==
    (last.kind = "deletion" /\ last.deleteFails # {}) => FinalizerKept

\* C12: whenever a child labelled with the workflow's name exists, the stored
\* workflow carries the finalizer.
C12_FinalizerWhileChildrenExist ==
    Listed(WorkflowName, childJobs) # {} => FinalizerKept

\* C13: with every child finishing and no API call failing, the workflow
\* reaches a terminal overall status and is no longer re-queued; so where no
\* call has failed and re-reconciling changes nothing any more, the workflow's
\* status is succeeded or failed.
C13_TerminalOverallStatus ==
    (Quiescent /\ faults = 0) =>
        managedJob.Status \in {ExecutionStatusSucceeded, ExecutionStatusFailed}

\* No API call has failed, no child reports a failure and the workflow is
\* not being deleted.
AllGoesWell ==
    /\ faults = 0
    /\ managedJob # NoObject
    /\ ~managedJob.Deleting
    /\ \A n \in DOMAIN childJobs : childJobs[n].Failed = 0

\* Every job has its child created and is succeeded, and so is the workflow.
WorkflowCompleted ==
    /\ managedJob # NoObject
    /\ managedJob.Status = ExecutionStatusSucceeded
    /\ \A p \in PairSet(managedJob.Groups) :
          /\ ChildName(managedJob, p[1], p[2]) \in DOMAIN created
          /\ JobOf(p).Status = ExecutionStatusSucceeded

\* C14: with planner-derived dependencies only, children that succeed and
\* never fail, and no failing API call, fair re-reconciliation launches every
\* job and brings the workflow's status to succeeded.
C14_WorkflowEventuallySucceeds == []AllGoesWell => <>WorkflowCompleted

\* A workflow of two jobs, the second depending on the first, has completed
\* without any failure.
C14_Witness ==
    /\ AllGoesWell
    /\ WorkflowCompleted
    /\ \E p \in PairSet(managedJob.Groups) : Len(JobOf(p).Dependencies) > 0

HasEntry(deps, name, status) ==
    \E d \in DOMAIN deps : deps[d].Name = name /\ deps[d].Status = status

\* The entry planning leaves for name: the one the list had, with the status it
\* had, or else a pending one.
HasPlannedEntry(was, deps, name) ==
    IF checkIfPresentInDependencies(was, name)
    THEN \A st \in Statuses : HasEntry(was, name, st) <=> HasEntry(deps, name, st)
    ELSE HasEntry(deps, name, ExecutionStatusPending)

\* The job lists of workflow after against those of workflow before: a parallel
\* job has the entries it had; any other job has, for every sibling before it,
\* a pending entry named workflow-group-sibling.
JobsPlanned(before, after) ==
    \A p \in PairSet(before.Groups) :
        LET g == after.Groups[p[1]]
            job == g.Jobs[p[2]]
        IN IF job.Parallel
           THEN job.Dependencies = before.Groups[p[1]].Jobs[p[2]].Dependencies
           ELSE \A k \in 1..(p[2] - 1) :
                   HasEntry(job.Dependencies,
                            SpecChildName(before.Name, g.Name, g.Jobs[k].Name),
                            ExecutionStatusPending)

\* The same, an entry that was already in the list keeping its status.
JobsPlannedOrKept(before, after) ==
    \A p \in PairSet(before.Groups) :
        LET g == after.Groups[p[1]]
            job == g.Jobs[p[2]]
            was == before.Groups[p[1]].Jobs[p[2]].Dependencies
        IN IF job.Parallel
           THEN job.Dependencies = was
           ELSE \A k \in 1..(p[2] - 1) :
                   HasPlannedEntry(was, job.Dependencies,
                                   SpecChildName(before.Name, g.Name, g.Jobs[k].Name))

\* C15: planning adds no entry to a parallel job and gives any other job, for
\* every sibling at an earlier position of its group, an entry named by the
\* sibling's synthesised child name, pending unless the list already had it.
C15_JobDependenciesAdded ==
    [][last'.kind = "plan" => JobsPlannedOrKept(managedJob, last'.mem)]_vars

\* Planning ran on a group of three jobs whose third job is not parallel and
\* got an entry for each of the two before it.
C15_Witness ==
    /\ last.kind = "plan"
    /\ \E p \in PairSet(last.mem.Groups) :
          /\ p[2] = 3
          /\ ~MemJob(p).Parallel
          /\ Len(MemJob(p).Dependencies) = 2
          /\ \A d \in 1..2 : MemJob(p).Dependencies[d].Status = ExecutionStatusPending

\* C15 as stated: every such entry has observed status pending after planning.
C15_JobDependenciesPlanned ==
    [][last'.kind = "plan" => JobsPlanned(managedJob, last'.mem)]_vars

\* A parallel group has the entries it had; any other group has a pending
\* entry named by the name of every group before it.
GroupsPlanned(before, after) ==
    \A gi \in DOMAIN before.Groups :
        IF after.Groups[gi].Parallel
        THEN after.Groups[gi].Dependencies = before.Groups[gi].Dependencies
        ELSE \A k \in 1..(gi - 1) :
                HasEntry(after.Groups[gi].Dependencies, before.Groups[k].Name,
                         ExecutionStatusPending)

\* The same, an entry that was already in the list keeping its status.
GroupsPlannedOrKept(before, after) ==
    \A gi \in DOMAIN before.Groups :
        IF after.Groups[gi].Parallel
        THEN after.Groups[gi].Dependencies = before.Groups[gi].Dependencies
        ELSE \A k \in 1..(gi - 1) :
                HasPlannedEntry(before.Groups[gi].Dependencies,
                                after.Groups[gi].Dependencies, before.Groups[k].Name)

\* C16: planning adds no entry to a parallel group and gives any other group an
\* entry named by the group name of every group at an earlier position, pending
\* unless the list already had it.
C16_GroupDependenciesAdded ==
    [][last'.kind = "plan" => GroupsPlannedOrKept(managedJob, last'.mem)]_vars

\* Planning ran on a workflow whose third group is not parallel and got an
\* entry for each of the two before it.
C16_Witness ==
    /\ last.kind = "plan"
    /\ \E gi \in DOMAIN last.mem.Groups :
          /\ gi = 3
          /\ ~last.mem.Groups[gi].Parallel
          /\ Len(last.mem.Groups[gi].Dependencies) = 2
          /\ \A d \in 1..2 :
                last.mem.Groups[gi].Dependencies[d].Status = ExecutionStatusPending

\* C16 as stated: every such entry has observed status pending after planning.
C16_GroupDependenciesPlanned ==
    [][last'.kind = "plan" => GroupsPlanned(managedJob, last'.mem)]_vars

IsPrefix(was, deps) == Len(was) <= Len(deps) /\ SubSeq(deps, 1, Len(was)) = was

\* Planning kept every entry the lists had, in place and with its status.
EntriesPreserved(before, after) ==
    /\ \A gi \in DOMAIN before.Groups :
          IsPrefix(before.Groups[gi].Dependencies, after.Groups[gi].Dependencies)
    /\ \A p \in PairSet(before.Groups) :
          IsPrefix(before.Groups[p[1]].Jobs[p[2]].Dependencies,
                   after.Groups[p[1]].Jobs[p[2]].Dependencies)

\* C17: planning keeps the entries a workflow has, with their statuses, and
\* planning the planned workflow again yields an equal workflow (no entry
\* appended twice, compiled parameters unchanged), so nothing is persisted.
C17_PlanningIdempotent ==
    [][last'.kind = "plan" =>
          /\ EntriesPreserved(managedJob, last'.mem)
          /\ generateDependencyTree(last'.mem) = last'.mem]_vars

\* Planning was persisted for a workflow with parameters, in which a job
\* carries both an entry it had before and an entry planning added.
C17_Witness ==
    /\ last.kind = "plan"
    /\ managedJob = last.mem
    /\ \E p \in PairSet(managedJob.Groups) :
          /\ JobOf(p).CompiledParams # NoParams
          /\ Len(JobOf(p).Dependencies) > 1
          /\ JobOf(p).Dependencies[1].Status = ExecutionStatusRunning
          /\ JobOf(p).Dependencies[2].Status = ExecutionStatusPending

\* The statuses of a workflow, of its groups and of its jobs.
StatusesOf(mj) ==
    <<mj.Status,
      [gi \in 1..Len(mj.Groups) |->
          <<mj.Groups[gi].Status,
            [ji \in 1..Len(mj.Groups[gi].Jobs) |-> mj.Groups[gi].Jobs[ji].Status]>>]>>

\* C18: a reconcile of a workflow that breaks a rule of the data model changes
\* no status of the workflow, its groups or its jobs and creates no child.
C18_InvalidWorkflowUntouched ==
    [][(managedJob # NoObject /\ ~ValidWorkflow(managedJob) /\ managedJob' # NoObject)
          => /\ StatusesOf(managedJob') = StatusesOf(managedJob)
             /\ created' = created]_vars

\* The workflow carries the parameters of the example: env FOO on the
\* workflow, FEE on the group and POO on the job at p, and nothing else.
ExampleLayers(mj, p) ==
    /\ mj.Params = ManagedJobParameters(<<"FOO">>, "", {})
    /\ mj.Groups[p[1]].Params = ManagedJobParameters(<<"FEE">>, "", {})
    /\ mj.Groups[p[1]].Jobs[p[2]].Params = ManagedJobParameters(<<"POO">>, "", {})

\* C19: with env FOO on the workflow, FEE on the group and POO on the job,
\* planning leaves the job's compiled env as POO, FEE, FOO: the job's entries
\* first, then the group's, then the workflow's.
C19_JobLayerFirst ==
    last.kind = "plan" =>
        \A p \in PairSet(last.mem.Groups) :
            ExampleLayers(last.mem, p)
            => MemJob(p).CompiledParams.Env = <<"POO", "FEE", "FOO">>

\* The three layers compiled for the job at p of mj.
LayersOf(mj, p) == <<mj.Params, mj.Groups[p[1]].Params, mj.Groups[p[1]].Jobs[p[2]].Params>>

\* C20: compiling is deterministic and idempotent: the compiled parameters a
\* planning leaves on a job are what compiling the same three layers again
\* gives, and compiling them as a single layer returns them unchanged.
C20_CompileIdempotent ==
    last.kind = "plan" =>
        \A p \in PairSet(last.mem.Groups) :
            /\ compileParameters(LayersOf(last.mem, p)) = MemJob(p).CompiledParams
            /\ compileParameters(<<MemJob(p).CompiledParams>>) = MemJob(p).CompiledParams

\* A planning compiled three layers that each carry a list, a scalar and a
\* map into a result with several env entries.
C20_Witness ==
    /\ last.kind = "plan"
    /\ \E p \in PairSet(last.mem.Groups) :
         /\ \A i \in 1..3 :
              /\ LayersOf(last.mem, p)[i].Env # <<>>
              /\ LayersOf(last.mem, p)[i].ServiceAccount # ""
              /\ LayersOf(last.mem, p)[i].Labels # {}
         /\ Len(MemJob(p).CompiledParams.Env) > 3
         /\ MemJob(p).CompiledParams.ServiceAccount = "sa3"

\* Job p comes before job q in declaration order.
Before(p, q) == p[1] < q[1] \/ (p[1] = q[1] /\ p[2] < q[2])

\* Every job-level entry of mj named after the child of job p, and every
\* group-level entry named after the group of p, has the given status.
EntriesOf(mj, p, status) ==
    /\ \A q \in PairSet(mj.Groups) :
          \A k \in 1..Len(mj.Groups[q[1]].Jobs[q[2]].Dependencies) :
              LET e == mj.Groups[q[1]].Jobs[q[2]].Dependencies[k]
              IN e.Name = ChildName(mj, p[1], p[2]) => e.Status = status
    /\ \A gi \in 1..Len(mj.Groups) :
          \A k \in 1..Len(mj.Groups[gi].Dependencies) :
              LET e == mj.Groups[gi].Dependencies[k]
              IN e.Name = mj.Groups[p[1]].Name => e.Status = status

\* The scheduler of the last reconcile had a Create refused with an error
\* that is not "already exists".
CreateFailed == last.kind = "run" /\ last.createErr = "error"

\* The refused job and its group are failed in memory.
CreateFailedStatuses ==
    \A p \in last.refused :
        /\ MemJob(p).Status = ExecutionStatusFailed
        /\ last.mem.Groups[p[1]].Status = ExecutionStatusFailed

\* No child was created after the refused one.
CreateFailedStops == \A p \in last.refused : \A q \in last.launched : Before(q, p)

\* C21: when the creation of a job's child fails with an error that does not
\* say "exists", the job and its group are failed, the dependency entries that
\* name them are failed, no further child is created in that reconcile, and the
\* reconcile returns no error.
C21_CreateErrorFailsJobAndGroup ==
    CreateFailed =>
        /\ CreateFailedStatuses
        /\ \A p \in last.refused : EntriesOf(last.mem, p, ExecutionStatusFailed)
        /\ CreateFailedStops
        /\ ~last.err

\* The number of children ever created, over all names.
RECURSIVE CreatedTotalOf(_, _)
CreatedTotalOf(cr, names) ==
    IF names = {} THEN 0
    ELSE LET n == CHOOSE x \in names : TRUE
         IN cr[n] + CreatedTotalOf(cr, names \ {n})

CreatedTotal(cr) == CreatedTotalOf(cr, DOMAIN cr)

\* The scheduler of the reconcile that ends in the next state had a Create
\* refused because the child's name is taken.
CreateExists == last'.kind = "run" /\ last'.createErr = "exists"

\* C22: when the creation of a job's child fails with "already exists", the
\* job stays pending in that reconcile (neither failed nor running, in memory
\* and in the stored object), the creation counter counts only the children
\* the reconcile did create, and the reconcile returns no error.
C22_ExistsLeavesJobPending ==
    [][CreateExists =>
          /\ \A p \in last'.refused :
                /\ JobOf(p).Status = ExecutionStatusPending
                /\ last'.mem.Groups[p[1]].Jobs[p[2]].Status = ExecutionStatusPending
                /\ managedJob'.Groups[p[1]].Jobs[p[2]].Status = ExecutionStatusPending
                /\ p \notin last'.launched
          /\ CreatedTotal(created') = CreatedTotal(created) + Cardinality(last'.launched)
          /\ ~last'.err]_vars

\* A reconcile had the Create of a pending job's child refused with "already
\* exists", the child being stored from an earlier reconcile.
C22_Witness ==
    /\ last.kind = "run"
    /\ last.createErr = "exists"
    /\ last.launched = {}
    /\ \E p \in last.refused :
         /\ ChildName(managedJob, p[1], p[2]) \in DOMAIN childJobs
         /\ managedJob.Groups[p[1]].Jobs[p[2]].Status = ExecutionStatusPending

\* The job positions a workflow can have.
Positions == (1..MaxGroups) \X (1..MaxJobs)

\* The workflow is stored and is not being deleted.
StaysLive == managedJob # NoObject /\ ~managedJob.Deleting

\* The last reconcile created the child of job p, and its update of the
\* workflow was lost: the stored job is still pending.
LostUpdate(p) ==
    /\ last.kind = "run"
    /\ managedJob # NoObject
    /\ p \in last.launched
    /\ JobOf(p).Status = ExecutionStatusPending

\* Job p has the status its child gives it.
Driven(p) ==
    /\ managedJob # NoObject
    /\ p \in PairSet(managedJob.Groups)
    /\ JobOf(p).Status \in
          {ExecutionStatusRunning, ExecutionStatusSucceeded, ExecutionStatusFailed}

\* C23: when a child was created and the update of that reconcile was lost,
\* no later reconcile creates a second child (every child name was created
\* exactly once over the whole history), and, while the workflow is not
\* deleted, the stored job eventually gets the status running, succeeded or
\* failed from the child that exists.
C23_LostUpdateRecovered ==
    /\ [](\A n \in DOMAIN created : created[n] = 1)
    /\ \A p \in Positions : []StaysLive => [](LostUpdate(p) => <>Driven(p))

\* The only job of a workflow is stored as pending although its child exists,
\* which only a lost update leaves behind, and a later reconcile has run: its
\* Create was refused and the child is still the one created once.
C23_Witness ==
    /\ faults = 1
    /\ last.kind = "run"
    /\ last.createErr = "exists"
    /\ Len(Pairs(managedJob.Groups)) = 1
    /\ \E p \in PairSet(managedJob.Groups) :
         /\ ChildName(managedJob, p[1], p[2]) \in DOMAIN childJobs
         /\ created[ChildName(managedJob, p[1], p[2])] = 1
         /\ JobOf(p).Status = ExecutionStatusPending

\* What scheduling and aggregation make of the stored workflow when nothing
\* is projected, the Create call number failNth failing.
Unprojected(failNth) ==
    checkOverallStatus(
        [managedJob EXCEPT !.Groups =
            runPendingJobs(managedJob, childJobs, created, failNth).groups])

\* C24: when the listing of the children fails, projection changes no job,
\* group or entry status: the reconcile ends with what scheduling and
\* aggregation make of the stored workflow, a job that was not pending keeps
\* its status, and the reconcile returns no error.
C24_ListErrorSkipsProjection ==
    [][(last'.kind = "run" /\ last'.listError) =>
          /\ \E failNth \in 0..Len(Pairs(managedJob.Groups)) :
                last'.mem = Unprojected(failNth)
          /\ \A p \in PairSet(managedJob.Groups) :
                JobOf(p).Status # ExecutionStatusPending
                => last'.mem.Groups[p[1]].Jobs[p[2]].Status = JobOf(p).Status
          /\ ~last'.err]_vars

\* The listing failed in a reconcile of a workflow with a running job whose
\* child has succeeded: the job is still running, and aggregation has run.
C24_Witness ==
    /\ last.kind = "run"
    /\ last.listError
    /\ last.requeue = 30
    /\ \E p \in PairSet(managedJob.Groups) :
         /\ ChildName(managedJob, p[1], p[2]) \in DOMAIN childJobs
         /\ childJobs[ChildName(managedJob, p[1], p[2])].Succeeded > 0
         /\ JobOf(p).Status = ExecutionStatusRunning
         /\ MemJob(p).Status = ExecutionStatusRunning

\* C25: whenever an update of the workflow object fails in a reconcile of a
\* live workflow (after the finalizer is added, after planning, or after
\* projection and scheduling), the reconcile returns the error.
C25_PersistErrorReturned == last.persistError => last.err

\* C26: the reconcile of a live workflow without the finalizer only adds the
\* finalizer: the stored object becomes the old one with the finalizer and the
\* reconcile asks to be run again after one second (or, when the update
\* fails, the object stays as it was); no entry is planned, no status changes
\* and no child is created.
C26_FinalizerOnly ==
    [][last'.kind = "finalizer" =>
          /\ ~managedJob.Finalizer
          /\ last'.mem = [managedJob EXCEPT !.Finalizer = TRUE]
          /\ IF last'.err
             THEN managedJob' = managedJob /\ last'.requeue = 0
             ELSE managedJob' = last'.mem /\ last'.requeue = 1
          /\ childJobs' = childJobs
          /\ created' = created]_vars

\* The finalizer was added to a workflow that planning has entries to give,
\* and none was given.
C26_Witness ==
    /\ last.kind = "finalizer"
    /\ ~last.err
    /\ last.requeue = 1
    /\ managedJob.Finalizer
    /\ generateDependencyTree(managedJob) # managedJob
    /\ \A p \in PairSet(managedJob.Groups) : JobOf(p).Dependencies = <<>>

\* C27: a reconcile that got past the finalizer and planning asks for a
\* re-queue after 30 seconds exactly when the workflow's status after
\* aggregation is running; for any other status it returns done, without
\* re-queue and without error.
C27_RequeueIffRunning ==
    last.kind = "run" =>
        /\ last.requeue = 30 <=> last.mem.Status = ExecutionStatusRunning
        /\ last.mem.Status # ExecutionStatusRunning => last.requeue = 0
        /\ ~last.err

\* A reconcile ended with the workflow succeeded and returned done, after an
\* earlier one had left it running.
C27_Witness ==
    /\ last.kind = "run"
    /\ last.mem.Status = ExecutionStatusSucceeded
    /\ last.requeue = 0
    /\ created # <<>>

\* C28: a reconcile in which planning changes the workflow stores the planned
\* workflow (unless its updates fail, which leaves the stored one as it was)
\* and returns done: it projects nothing, so no status changes, and creates no
\* child; scheduling is left to a later reconcile.
C28_PlanningEndsReconcile ==
    [][last'.kind = "plan" =>
          /\ last'.mem = generateDependencyTree(managedJob)
          /\ last'.mem # managedJob
          /\ managedJob' \in {last'.mem, managedJob}
          /\ ~last'.persistError => managedJob' = last'.mem
          /\ StatusesOf(managedJob') = StatusesOf(managedJob)
          /\ childJobs' = childJobs
          /\ created' = created
          /\ last'.launched = {}
          /\ last'.requeue = 0
          /\ ~last'.err]_vars

\* Planning has just been stored for a workflow with a job that is ready to
\* be launched, and no child has been created.
C28_Witness ==
    /\ last.kind = "plan"
    /\ managedJob = last.mem
    /\ childJobs = <<>>
    /\ created = <<>>
    /\ FaultFreeRun[2] # <<>>
    /\ \E p \in PairSet(managedJob.Groups) : Len(JobOf(p).Dependencies) > 0

\* Every group of mj that is succeeded has only succeeded jobs.
SucceededGroupsComplete(mj) ==
    \A gi \in 1..Len(mj.Groups) :
        mj.Groups[gi].Status = ExecutionStatusSucceeded
        => \A ji \in 1..Len(mj.Groups[gi].Jobs) :
               mj.Groups[gi].Jobs[ji].Status = ExecutionStatusSucceeded

\* C29: after every reconcile, a group whose status is succeeded has all of
\* its jobs succeeded, in the workflow the reconcile ended with and in the
\* stored one.
C29_SucceededGroupHasSucceededJobs ==
    /\ last.kind = "run" => SucceededGroupsComplete(last.mem)
    /\ managedJob # NoObject => SucceededGroupsComplete(managedJob)

\* The child of the job at position ji of the first group, when it exists.
ChainChild(ji) == childJobs[ChildName(ChainWorkflow, 1, ji)]

ChainHasChild(ji) == ChildName(ChainWorkflow, 1, ji) \in DOMAIN childJobs

\* The child of job ji exists and reports a succeeded pod.
ChainSucceeded(ji) == ChainHasChild(ji) /\ ChainChild(ji).Succeeded > 0

AllParallel(mj) ==
    /\ \A gi \in 1..Len(mj.Groups) : mj.Groups[gi].Parallel
    /\ \A p \in PairSet(mj.Groups) : mj.Groups[p[1]].Jobs[p[2]].Parallel

\* No group and no job of mj has a dependency entry.
NoEntries(mj) ==
    /\ \A gi \in 1..Len(mj.Groups) : mj.Groups[gi].Dependencies = <<>>
    /\ \A p \in PairSet(mj.Groups) : mj.Groups[p[1]].Jobs[p[2]].Dependencies = <<>>

\* Nothing of mj has been launched yet: every status is the default.
Fresh(mj) ==
    /\ \A gi \in 1..Len(mj.Groups) : mj.Groups[gi].Status = ExecutionStatusPending
    /\ \A p \in PairSet(mj.Groups) :
          mj.Groups[p[1]].Jobs[p[2]].Status = ExecutionStatusPending

\* The first scheduling reconcile of a workflow whose groups and jobs are all
\* parallel, in which no Create call fails.
FirstParallelTick ==
    /\ managedJob # NoObject
    /\ AllParallel(managedJob)
    /\ Fresh(managedJob)
    /\ childJobs = <<>>
    /\ last'.kind = "run"
    /\ last'.createErr # "error"

C31_DistinctNamesLaunchAll ==
    [][(FirstParallelTick
          /\ \A p, q \in PairSet(managedJob.Groups) :
                p # q => ChildName(managedJob, p[1], p[2]) # ChildName(managedJob, q[1], q[2]))
            => /\ Cardinality(DOMAIN childJobs') = 4
               /\ last'.launched = PairSet(managedJob.Groups)]_vars

\* The two jobs on the cycle.
CycleJobs == {<<1, 1>>, <<1, 2>>}

\* The entries on the cycle have the observed status pending, as submitted.
CycleEntriesPending ==
    \A p \in CycleJobs :
        \A k \in 1..Len(JobOf(p).Dependencies) :
            JobOf(p).Dependencies[k].Status = ExecutionStatusPending

\* No job on the cycle has been launched: both are pending and have no child.
CycleNeverLaunched ==
    \A p \in CycleJobs :
        /\ JobOf(p).Status = ExecutionStatusPending
        /\ ChildName(managedJob, p[1], p[2]) \notin DOMAIN childJobs
        /\ ChildName(managedJob, p[1], p[2]) \notin DOMAIN created
        /\ p \notin last.launched

ProjectionRule(status, child) ==
    IF child.Succeeded > 0 THEN ExecutionStatusSucceeded
    ELSE IF child.Failed > 0 THEN ExecutionStatusFailed
    ELSE IF child.Active > 0 THEN ExecutionStatusRunning
    ELSE status

\* C33: after projection every job whose child is listed has the status the
\* rules give it: succeeded when the succeeded count is positive (also when it
\* was succeeded already), else failed when the failed count is positive, else
\* running when the active count is positive, else unchanged. Stated of the
\* workflow a reconcile ends with, for the jobs the rules do not leave pending
\* (a pending job is the scheduler's to change).
C33_ProjectionFirstRuleWins ==
    [][(last'.kind = "run" /\ ~last'.listError) =>
          \A p \in PairSet(managedJob.Groups) :
              LET n == ChildName(managedJob, p[1], p[2])
              IN (/\ n \in DOMAIN childJobs
                  /\ ProjectionRule(JobOf(p).Status, childJobs[n]) # ExecutionStatusPending)
                 => last'.mem.Groups[p[1]].Jobs[p[2]].Status
                      = ProjectionRule(JobOf(p).Status, childJobs[n])]_vars

\* Every job-level entry of mj named after the child of job p has the status.
JobEntriesOf(mj, p, status) ==
    \A q \in PairSet(mj.Groups) :
        \A k \in 1..Len(mj.Groups[q[1]].Jobs[q[2]].Dependencies) :
            LET e == mj.Groups[q[1]].Jobs[q[2]].Dependencies[k]
            IN e.Name = ChildName(mj, p[1], p[2]) => e.Status = status

\* C34: when the scheduler changes the status of a job (running on a launch,
\* failed on a create error), every job-level entry that names the job by its
\* synthesised child name has that status at the end of the same reconcile.
C34_SchedulerPropagatesToEntries ==
    last.kind = "run" =>
        /\ \A p \in last.launched :
              JobEntriesOf(last.mem, p, ExecutionStatusRunning)
        /\ last.createErr = "error" =>
              \A p \in last.refused :
                  JobEntriesOf(last.mem, p, ExecutionStatusFailed)

\* C35: for a job with an explicit entry that names a sibling by its job name,
\* once the sibling's child has succeeded the entry's status becomes succeeded
\* and the dependent job is eventually launched; so where re-reconciling
\* changes nothing any more and the sibling is succeeded, the entry is
\* succeeded and the dependent job has its child.
C35_SiblingNameEntryFollows ==
    (Quiescent /\ faults = 0 /\ JobOf(<<1, 1>>).Status = ExecutionStatusSucceeded) =>
        /\ JobOf(<<1, 2>>).Dependencies[1].Status = ExecutionStatusSucceeded
        /\ ChildName(managedJob, 1, 2) \in DOMAIN created

\* The job-level entries of the jobs of group gi of mj.
GroupJobEntries(mj, gi) ==
    [ji \in 1..Len(mj.Groups[gi].Jobs) |-> mj.Groups[gi].Jobs[ji].Dependencies]

\* Nothing of group gi is propagated in the reconcile that ends in the next
\* state: no child of its jobs is listed, and the scheduler launches none of
\* its jobs, has no Create refused for them and changes none of their statuses.
GroupUntouched(gi) ==
    /\ \A ji \in 1..Len(managedJob.Groups[gi].Jobs) :
          /\ ChildName(managedJob, gi, ji) \notin DOMAIN childJobs
          /\ <<gi, ji>> \notin last'.launched \cup last'.refused
          /\ last'.mem.Groups[gi].Jobs[ji].Status = managedJob.Groups[gi].Jobs[ji].Status

\* C36: propagating the status of a job of one group changes only entries of
\* jobs of that group: the entries of the jobs of a group from which nothing is
\* propagated in a reconcile are the same after it, also when they carry the
\* name of a job of another group.
C36_PropagationStaysInGroup ==
    [][last'.kind = "run" =>
          \A gi \in 1..Len(managedJob.Groups) :
              GroupUntouched(gi)
              => GroupJobEntries(last'.mem, gi) = GroupJobEntries(managedJob, gi)]_vars

\* The listed children that are the child of a job of the stored workflow.
OwnChildren ==
    [n \in { ChildName(managedJob, p[1], p[2]) : p \in PairSet(managedJob.Groups) }
           \cap DOMAIN childJobs |-> childJobs[n]]

\* What a reconcile makes of the stored workflow when only these children are
\* listed, the Create call number failNth failing.
RunOver(jobs, listError, failNth) ==
    LET projected == checkRunningJobsStatus(managedJob, jobs, listError)
    IN checkOverallStatus(
           [projected EXCEPT !.Groups =
               runPendingJobs(projected, jobs, created, failNth).groups])

\* C37: a listed child whose name is the child name of no job of the workflow
\* is ignored: a reconcile ends with the workflow it would end with if only the
\* children of its own jobs were listed, every job, group and entry status
\* included.
C37_OrphanChildIgnored ==
    [][(last'.kind = "run" /\ OrphanName \in DOMAIN childJobs) =>
          \E failNth \in 0..Len(Pairs(managedJob.Groups)) :
              last'.mem = RunOver(OwnChildren, last'.listError, failNth)]_vars

\* A reconcile listed the orphan child with a succeeded pod next to the child
\* of the first job, and the first job was projected from its own child only.
C37_Witness ==
    /\ last.kind = "run"
    /\ ~last.listError
    /\ OrphanName \in DOMAIN childJobs
    /\ childJobs[OrphanName].Succeeded > 0
    /\ ChainHasChild(1)
    /\ ChainChild(1).Active > 0
    /\ ChainChild(1).Succeeded = 0
    /\ MemJob(<<1, 1>>).Status = ExecutionStatusRunning

\* The children of the other workflow.
OtherChildren == { n \in DOMAIN childJobs : childJobs[n].Workflow = OtherWorkflowName }

\* C38: the child names of two distinct workflows are disjoint, so the
\* reconcile of one never has a Create refused with "already exists" because of
\* a child of the other, never lists one, and is never kept from launching its
\* own job by one.
C38_WorkflowsDoNotCollide ==
    last.kind = "run" =>
        \A p \in last.refused :
            last.createErr = "exists" => ChildName(last.mem, p[1], p[2]) \notin OtherChildren

\* The jobs declared after p in p's group that the tick left pending although
\* they have no dependency entry to wait for and no child of their name exists.
LeftBehind(mj, p) ==
    { q \in PairSet(mj.Groups) :
        /\ q[1] = p[1]
        /\ q[2] > p[2]
        /\ mj.Groups[q[1]].Jobs[q[2]].Status = ExecutionStatusPending
        /\ mj.Groups[q[1]].Jobs[q[2]].Dependencies = <<>>
        /\ ChildName(mj, q[1], q[2]) \notin DOMAIN childJobs }

\* C39: a Create answered with "already exists" does not stop the scheduler:
\* the eligible pending jobs declared after the refused one are launched in
\* the same tick.
C39_ExistsDoesNotStopScheduling ==
    (last.kind = "run" /\ last.createErr = "exists") =>
        \A p \in last.refused : LeftBehind(last.mem, p) \subseteq last.launched

\* C40: a created child has no backoff limit when retries is 0, the limit
\* retries when 1 <= retries <= 100, and the limit 1 when retries is below 0 or
\* above 100.
C40_BackoffLimitFromRetries ==
    \A n \in DOMAIN childJobs :
        LET retries == managedJob.Retries
            limit == childJobs[n].BackoffLimit
        IN /\ retries = 0 => limit = <<>>
           /\ (1 <= retries /\ retries <= 100) => limit = <<retries>>
           /\ (retries < 0 \/ retries > 100) => limit = <<1>>

\* A child created under a retries value above 100.
C40_Witness ==
    /\ childJobs # <<>>
    /\ managedJob.Retries > 100

====
